---- MODULE Spec2Model ----
(***************************************************************************)
(* Model of na_ontap_gather_facts.py: the NetApp ONTAP fact collector.     *)
(*                                                                         *)
(* Python values are tagged records.  A string is a sequence of tokens in  *)
(* which "-", "_" and ":" are tokens of their own, so that                 *)
(* str.replace('-', '_'), ':'.join and str.split(':') are computed and not *)
(* assumed.  A dict is the sequence of its (key, value) items in insertion *)
(* order, with unique keys.                                                *)
(***************************************************************************)
EXTENDS Integers, Sequences, FiniteSets, TLC

VARIABLES pc, step, netapp_info, sent, ifgrps, net_ifgrp_info, lookups, result,
          arg, ret

vars == <<pc, step, netapp_info, sent, ifgrps, net_ifgrp_info, lookups, result,
          arg, ret>>

(***************************************************************************)
(* Python values                                                           *)
(***************************************************************************)
None == [t |-> "none"]

Str(s) == [t |-> "str", s |-> s]

Dict(items) == [t |-> "dict", items |-> items]

List(elems) == [t |-> "list", elems |-> elems]

\* Result of a Python expression: a value, or a raised exception.
Ok(v) == [raised |-> "", v |-> v]

Raise(exc) == [raised |-> exc, v |-> None]

\* key in d
HasKey(items, k) == \E i \in 1..Len(items) : items[i][1] = k

\* d[key], for a key that is present
GetItem(items, k) == items[CHOOSE i \in 1..Len(items) : items[i][1] = k][2]

\* d[key] = v: an existing key keeps its position, a new one is appended.
SetItem(items, k, v) ==
    IF HasKey(items, k)
    THEN [i \in 1..Len(items) |-> IF items[i][1] = k THEN <<k, v>> ELSE items[i]]
    ELSE Append(items, <<k, v>>)

\* d.update(other)
RECURSIVE UpdateItems(_, _)
UpdateItems(items, other) ==
    IF other = <<>> THEN items
    ELSE UpdateItems(SetItem(items, Head(other)[1], Head(other)[2]), Tail(other))

\* k.replace('-', '_')
Replace(s) == [i \in 1..Len(s) |-> IF s[i] = "-" THEN "_" ELSE s[i]]

\* ':'.join(parts), parts a sequence of token sequences
RECURSIVE Join(_)
Join(parts) ==
    IF Len(parts) = 0 THEN <<>>
    ELSE IF Len(parts) = 1 THEN parts[1]
    ELSE parts[1] \o <<":">> \o Join(Tail(parts))

\* s.split(':')
RECURSIVE Split(_)
Split(s) ==
    IF \A i \in 1..Len(s) : s[i] # ":" THEN <<s>>
    ELSE LET p == CHOOSE i \in 1..Len(s) :
                      s[i] = ":" /\ \A j \in 1..(i - 1) : s[j] # ":"
         IN <<SubSeq(s, 1, p - 1)>> \o Split(SubSeq(s, p + 1, Len(s)))

\* json.loads(json.dumps(d)): a structural copy of None, strings, lists, dicts.
RECURSIVE JsonRoundTrip(_)
JsonRoundTrip(d) ==
    CASE d.t = "dict" ->
           Dict([i \in 1..Len(d.items) |->
                    <<d.items[i][1], JsonRoundTrip(d.items[i][2])>>])
      [] d.t = "list" ->
           List([i \in 1..Len(d.elems) |-> JsonRoundTrip(d.elems[i])])
      [] OTHER -> d

(***************************************************************************)
(* _finditem (lines 254-263)                                               *)
(***************************************************************************)
RECURSIVE _finditem(_, _)
RECURSIVE FindInValues(_, _)
\* the for loop of _finditem over obj.items()
FindInValues(items, key) ==
    IF items = <<>> THEN None
    ELSE LET v == Head(items)[2]
         IN IF v.t = "dict"
            THEN LET item == _finditem(v, key)
                 IN IF item # None THEN item
                    ELSE FindInValues(Tail(items), key)
            ELSE FindInValues(Tail(items), key)

_finditem(obj, key) ==
    IF HasKey(obj.items, key) THEN GetItem(obj.items, key)
    ELSE FindInValues(obj.items, key)

(***************************************************************************)
(* convert_keys (lines 266-274)                                            *)
(***************************************************************************)
RECURSIVE convert_keys(_)
RECURSIVE ConvertItems(_, _)
\* the for loop of convert_keys: out[k.replace('-', '_')] = convert_keys(v)
ConvertItems(items, out) ==
    IF items = <<>> THEN out
    ELSE ConvertItems(Tail(items),
                      SetItem(out, Replace(Head(items)[1]),
                              convert_keys(Head(items)[2])))

convert_keys(d) ==
    IF d.t = "dict" THEN Dict(ConvertItems(d.items, <<>>)) ELSE d

(***************************************************************************)
(* The session: a reply of invoke_successfully is the response element, or *)
(* a raised NaApiError.  A response element is a dict from container name  *)
(* to the list of its children, each child already in the form             *)
(* xmltodict.parse gives it: a dict with the element's tag as only key.    *)
(***************************************************************************)
KeyManagerCall == "security-key-manager-key-get-iter"

Reply(raised, response) == [raised |-> raised, response |-> response]

\* Outcome of a method: it returns v, ends the run through fail_json(msg),
\* or lets a Python exception escape.
Return(v) == [out |-> "return", v |-> v, msg |-> <<>>]

FailJson(msg) == [out |-> "fail_json", v |-> None, msg |-> msg]

Escapes(exc) == [out |-> "raise", v |-> None, msg |-> <<exc>>]

\* call_api with every failed call treated like the key-manager call
call_api_AllExempt(call, reply) ==
    IF reply.raised THEN Return(None) ELSE Return(reply.response)

\* call_api without the key-manager exemption
call_api_NoneExempt(call, reply) ==
    IF reply.raised
    THEN FailJson(<<"Error calling API ", call, ": ", "NaApiError">>)
    ELSE Return(reply.response)

\* call_api (lines 99-114); the query only shapes the request that is sent.
call_api(call, reply) ==
    IF ~reply.raised THEN Return(reply.response)
    ELSE IF call \in {KeyManagerCall} THEN Return(None)
    ELSE FailJson(<<"Error calling API ", call, ": ", "NaApiError">>)

\* NaElement.get_child_by_name(children)
get_child_by_name(response, children) ==
    IF HasKey(response.items, children) THEN GetItem(response.items, children)
    ELSE None

\* field=None, field='name' and field=('a', 'b')
FieldNone == [kind |-> "none", names |-> <<>>]

FieldStr(name) == [kind |-> "str", names |-> <<name>>]

FieldTuple(names) == [kind |-> "tuple", names |-> names]

\* CompositeKey with the key fields joined in reverse order
CompositeKey_Reversed(d, names) ==
    LET n == Len(names)
        found == [i \in 1..n |-> _finditem(d, names[n + 1 - i])]
    IN IF \E i \in 1..n : found[i].t # "str" THEN Raise("TypeError")
       ELSE Ok(Str(Join([i \in 1..n |-> found[i].s])))

\* ':'.join([_finditem(d, el) for el in field]) (line 162); join raises
\* TypeError on an item that is not a string.
CompositeKey(d, names) ==
    LET found == [i \in 1..Len(names) |-> _finditem(d, names[i])]
    IN IF \E i \in 1..Len(names) : found[i].t # "str" THEN Raise("TypeError")
       ELSE Ok(Str(Join([i \in 1..Len(names) |-> found[i].s])))

\* StoreKeyed where a record whose key is already in the table is dropped
StoreKeyed_FirstWins(out, unique_key, d) ==
    IF unique_key.t \in {"dict", "list"} THEN Raise("TypeError")
    ELSE IF HasKey(out.items, unique_key) THEN Ok(out)
    ELSE Ok(Dict(SetItem(out.items, unique_key, convert_keys(JsonRoundTrip(d)))))

\* out = out.copy(); out.update({unique_key: convert_keys(...)}) (lines 159-160,
\* 163-164); a dict or a list is unhashable and cannot be a key.
StoreKeyed(out, unique_key, d) ==
    IF unique_key.t \in {"dict", "list"} THEN Raise("TypeError")
    ELSE Ok(Dict(SetItem(out.items, unique_key, convert_keys(JsonRoundTrip(d)))))

\* The body of the for loop of get_generic_get_iter (lines 152-166) for one
\* child; `in` on None, a string without the key, or a list raises.
ProcessChild(out, child, attribute, field) ==
    IF attribute # None /\ ~HasKey(child.items, attribute.s) THEN Raise("KeyError")
    ELSE LET d == IF attribute = None THEN child
                  ELSE GetItem(child.items, attribute.s)
         IN CASE field.kind = "str" ->
                   IF d.t # "dict" THEN Raise("TypeError")
                   ELSE StoreKeyed(out, _finditem(d, field.names[1]), d)
              [] field.kind = "tuple" ->
                   IF d.t # "dict" THEN Raise("TypeError")
                   ELSE LET unique_key == CompositeKey(d, field.names)
                        IN IF unique_key.raised # "" THEN unique_key
                           ELSE StoreKeyed(out, unique_key.v, d)
              [] OTHER ->
                   Ok(List(Append(out.elems, convert_keys(JsonRoundTrip(d)))))

\* for child in attributes_list.get_children() (line 151)
RECURSIVE ForChildren(_, _, _, _)
ForChildren(children, out, attribute, field) ==
    IF children = <<>> THEN Ok(out)
    ELSE LET r == ProcessChild(out, Head(children), attribute, field)
         IN IF r.raised # "" THEN r
            ELSE ForChildren(Tail(children), r.v, attribute, field)

\* get_generic_get_iter giving the empty collection for an absent response
get_generic_get_iter_EmptyForAbsent(call, attribute, field, children, reply) ==
    LET generic_call == call_api(call, reply)
        out == IF field.kind = "none" THEN List(<<>>) ELSE Dict(<<>>)
    IN IF generic_call.out # "return" THEN generic_call
       ELSE IF generic_call.v = None THEN Return(out)
       ELSE LET attributes_list == get_child_by_name(generic_call.v, children)
            IN IF attributes_list = None THEN Return(None)
               ELSE LET r == ForChildren(attributes_list.elems, out, attribute, field)
                    IN IF r.raised # "" THEN Escapes(r.raised) ELSE Return(r.v)

\* get_generic_get_iter (lines 135-168)
get_generic_get_iter(call, attribute, field, children, reply) ==
    LET generic_call == call_api(call, reply)
    IN IF generic_call.out # "return" THEN generic_call
       ELSE IF generic_call.v = None THEN Return(None)
       ELSE LET attributes_list == get_child_by_name(generic_call.v, children)
                out == IF field.kind = "none" THEN List(<<>>) ELSE Dict(<<>>)
            IN IF attributes_list = None THEN Return(None)
               ELSE LET r == ForChildren(attributes_list.elems, out, attribute, field)
                    IN IF r.raised # "" THEN Escapes(r.raised) ELSE Return(r.v)

(***************************************************************************)
(* The catalog of get_all (lines 170-250), in call order.  The ninth       *)
(* category is derived by get_ifgrp_info from the net-port table.          *)
(***************************************************************************)
Category(cat, call, attribute, field, derived) ==
    [cat |-> cat, call |-> call, attribute |-> attribute, field |-> field,
     derived |-> derived]

Catalog ==
    <<
       Category("net_interface_info", "net-interface-get-iter",
                Str(<<"net", "-", "interface", "-", "info">>),
                FieldStr(<<"interface", "-", "name">>), FALSE),
       Category("net_port_info", "net-port-get-iter",
                Str(<<"net", "-", "port", "-", "info">>),
                FieldTuple(<<<<"node">>, <<"port">>>>), FALSE),
       Category("cluster_node_info", "cluster-node-get-iter",
                Str(<<"cluster", "-", "node", "-", "info">>),
                FieldStr(<<"node", "-", "name">>), FALSE),
       Category("security_login_account_info", "security-login-get-iter",
                Str(<<"security", "-", "login", "-", "account", "-", "info">>),
                FieldTuple(<<<<"user", "-", "name">>, <<"application">>, <<"authentication", "-", "method">>>>), FALSE),
       Category("aggregate_info", "aggr-get-iter",
                Str(<<"aggr", "-", "attributes">>),
                FieldStr(<<"aggregate", "-", "name">>), FALSE),
       Category("volume_info", "volume-get-iter",
                Str(<<"volume", "-", "attributes">>),
                FieldTuple(<<<<"name">>, <<"owning", "-", "vserver", "-", "name">>, <<"aggr", "-", "name">>>>), FALSE),
       Category("lun_info", "lun-get-iter",
                Str(<<"lun", "-", "info">>),
                FieldStr(<<"path">>), FALSE),
       Category("storage_failover_info", "cf-get-iter",
                Str(<<"storage", "-", "failover", "-", "info">>),
                FieldStr(<<"node">>), FALSE),
       Category("net_ifgrp_info", "net-port-ifgrp-get",
                Str(<<"net", "-", "ifgrp", "-", "info">>),
                FieldTuple(<<<<"node">>, <<"ifgrp", "-", "name">>>>), TRUE),
       Category("vserver_motd_info", "vserver-motd-get-iter",
                Str(<<"vserver", "-", "motd", "-", "info">>),
                FieldStr(<<"vserver">>), FALSE),
       Category("vserver_login_banner_info", "vserver-login-banner-get-iter",
                Str(<<"vserver", "-", "login", "-", "banner", "-", "info">>),
                FieldStr(<<"vserver">>), FALSE),
       Category("security_key_manager_key_info", "security-key-manager-key-get-iter",
                Str(<<"security", "-", "key", "-", "manager", "-", "key", "-", "info">>),
                FieldTuple(<<<<"node">>, <<"key", "-", "id">>>>), FALSE),
       Category("vserver_info", "vserver-get-iter",
                Str(<<"vserver", "-", "info">>),
                FieldStr(<<"vserver", "-", "name">>), FALSE)
    >>

\* query={'max-records': '1024'}
MaxRecordsQuery == Dict(<< << <<"max", "-", "records">>, Str(<<"1024">>) >> >>)

\* an assignment that leaves the key out when the value is None
StoreFact_SkipNone(info, cat, v) ==
    IF v = None THEN info
    ELSE [c \in (DOMAIN info) \cup {cat} |-> IF c = cat THEN v ELSE info[c]]

\* self.netapp_info[cat] = v
StoreFact(info, cat, v) ==
    [c \in (DOMAIN info) \cup {cat} |-> IF c = cat THEN v ELSE info[c]]

(***************************************************************************)
(* Bounds of the model, and the replies the session may give.              *)
(***************************************************************************)
\* most children in one container of a response
MaxRecords == 2

\* most replies of one run, other than the net-port reply, that are not the
\* regular one (a container holding the one well-formed record asked for)
MaxIrregular == 1

\* nesting depth of the records of the function-level specification
MaxDepth == 2

\* all sequences over pool of length at most n
Seqs(pool, n) == UNION {[1..k -> pool] : k \in 0..n}

\* a record of an iterator call: <attribute> holding the key fields (their
\* values have hyphens too) and one more hyphenated field
GoodChild(c) ==
    Dict(<< <<c.attribute.s,
              Dict([i \in 1..Len(c.field.names) |->
                       <<c.field.names[i],
                         Str(c.field.names[i] \o <<"-", "1">>)>>]
                   \o << << <<"is", "-", "up">>, Str(<<"true">>) >> >>) >> >>)

\* a record under another tag than the configured attribute
NoAttrChild == Dict(<< << <<"other", "-", "info">>, Dict(<<>>) >> >>)

\* a record without any of the key fields
NoKeyChild(c) ==
    Dict(<< <<c.attribute.s,
              Dict(<< << <<"extra", "-", "info">>, None >> >>) >> >>)

\* an empty element under the configured attribute: xmltodict gives None
EmptyChild(c) == Dict(<< <<c.attribute.s, None>> >>)

IfGroup == <<"if", "_", "group">>

PortChild(node, port, type) ==
    Dict(<< << <<"net", "-", "port", "-", "info">>,
               Dict(<< << <<"node">>, Str(node) >>,
                       << <<"port">>, Str(port) >>,
                       << <<"port", "-", "type">>, Str(type) >> >>) >> >>)

\* a port record without port-type
UntypedPortChild ==
    Dict(<< << <<"net", "-", "port", "-", "info">>,
               Dict(<< << <<"node">>, Str(<<"nodeA">>) >>,
                       << <<"port">>, Str(<<"e0d">>) >> >>) >> >>)

IfgrpChild(node, name) ==
    Dict(<< << <<"net", "-", "ifgrp", "-", "info">>,
               Dict(<< << <<"node">>, Str(node) >>,
                       << <<"ifgrp", "-", "name">>, Str(name) >>,
                       << <<"ports">>,
                          Dict(<< << <<"lif", "-", "bindable">>,
                                     Str(<<"e0c">>) >> >>) >> >>) >> >>)

\* the well-formed children a container of step i's reply may hold
ChildPool(i) ==
    IF Catalog[i].cat = "net_port_info"
    THEN {PortChild(<<"nodeA">>, <<"a0a">>, IfGroup),
          PortChild(<<"nodeA">>, <<"a0b">>, IfGroup),
          PortChild(<<"nodeA">>, <<"a0b">>, <<"physical">>)}
    ELSE {GoodChild(Catalog[i])}

\* the malformed children of step i's reply; such a child comes alone
OddPool(i) ==
    {NoAttrChild, NoKeyChild(Catalog[i]), EmptyChild(Catalog[i])}
    \cup IF Catalog[i].cat = "net_port_info"
         THEN {PortChild(<<"n", ":", "x">>, <<"a0c">>, IfGroup), UntypedPortChild}
         ELSE {}

\* the well-formed children the reply to the lookup of group (node, name) may
\* hold: the group asked for, and one fixed group
IfgrpPool(node, name) ==
    {IfgrpChild(node, name), IfgrpChild(<<"nodeA">>, <<"a0a">>)}

Response(children, cs) == Dict(<< <<children, List(cs)>> >>)

\* a response without the container that is looked for
NoContainer == Dict(<<>>)

Replies(children, pool, odd) ==
    {Reply(TRUE, None), Reply(FALSE, NoContainer)}
    \cup {Reply(FALSE, Response(children, cs)) : cs \in Seqs(pool, MaxRecords)}
    \cup {Reply(FALSE, Response(children, <<c>>)) : c \in odd}

\* the table of the regular reply of each step
RegularTables ==
    [i \in 1..Len(Catalog) |->
        get_generic_get_iter(Catalog[i].call, Catalog[i].attribute,
                             Catalog[i].field, "attributes-list",
                             Reply(FALSE, Response("attributes-list",
                                                   <<GoodChild(Catalog[i])>>))).v]

RegularTable(i) == RegularTables[i]

\* the table of the regular reply to the lookup with this query
RegularIfgrpTable(query) ==
    Dict(<< <<Str(Join(<<GetItem(query.items, <<"node">>).s,
                         GetItem(query.items, <<"ifgrp", "-", "name">>).s>>)),
              convert_keys(GetItem(IfgrpChild(GetItem(query.items, <<"node">>).s,
                                              GetItem(query.items,
                                                      <<"ifgrp", "-", "name">>).s).items,
                                   <<"net", "-", "ifgrp", "-", "info">>))>> >>)

Irregular(info, log) ==
    Cardinality({i \in 1..Len(Catalog) :
                    /\ Catalog[i].cat \in DOMAIN info
                    /\ Catalog[i].cat \notin {"net_port_info", "net_ifgrp_info"}
                    /\ info[Catalog[i].cat] # RegularTable(i)})
    + Cardinality({i \in 1..Len(log) : log[i].tmp # RegularIfgrpTable(log[i].query)})

\* an entry of the log of the session: the call, its query, and whether it
\* raised NaApiError
Sent(call, query, reply) ==
    [call |-> call, query |-> query, raised |-> reply.raised]

\* an entry of the record of get_ifgrp_info's lookups: the query and the
\* table tmp that get_generic_get_iter returned for it
Lookup(query, tmp) == [query |-> query, tmp |-> tmp]

NoResult == [kind |-> "none"]

(***************************************************************************)
(* The run: main (lines 277-298), get_all and get_ifgrp_info.              *)
(***************************************************************************)
Init ==
    /\ pc = "Uninitialized"
    /\ step = 1
    /\ netapp_info = [c \in {} |-> None]
    /\ sent = <<>>
    /\ ifgrps = <<>>
    /\ net_ifgrp_info = Dict(<<>>)
    /\ lookups = <<>>
    /\ result = NoResult
    /\ arg = None
    /\ ret = None

\* main up to the construction of NetAppGatherFacts (lines 288-295, 90-97)
Setup ==
    /\ pc = "Uninitialized"
    /\ \E HAS_XMLTODICT \in BOOLEAN, HAS_JSON \in BOOLEAN, HAS_NETAPP_LIB \in BOOLEAN :
          IF ~HAS_XMLTODICT
          THEN /\ pc' = "Failed"
               /\ result' = [kind |-> "fail_json", msg |-> <<"xmltodict missing">>]
          ELSE IF ~HAS_JSON
          THEN /\ pc' = "Failed"
               /\ result' = [kind |-> "fail_json", msg |-> <<"json missing">>]
          ELSE IF ~HAS_NETAPP_LIB
          THEN /\ pc' = "Failed"
               /\ result' = [kind |-> "fail_json",
                             msg |-> <<"the python NetApp-Lib module is required">>]
          ELSE /\ pc' = "Collecting"
               /\ result' = result
    /\ UNCHANGED <<step, netapp_info, sent, ifgrps, net_ifgrp_info, lookups, arg, ret>>

\* what an outcome other than a return does to the run
Abort(r) ==
    IF r.out = "fail_json"
    THEN /\ pc' = "Failed"
         /\ result' = [kind |-> "fail_json", msg |-> r.msg]
    ELSE /\ pc' = "Crashed"
         /\ result' = [kind |-> "traceback", msg |-> r.msg]

\* one assignment self.netapp_info[...] = self.get_generic_get_iter(...)
Collect ==
    /\ pc = "Collecting"
    /\ step <= Len(Catalog)
    /\ ~Catalog[step].derived
    /\ LET within == Irregular(netapp_info, lookups) < MaxIrregular
       IN \E reply \in Replies("attributes-list", ChildPool(step), OddPool(step)) :
          LET c == Catalog[step]
              r == get_generic_get_iter(c.call, c.attribute, c.field,
                                        "attributes-list", reply)
          IN /\ sent' = Append(sent, Sent(c.call, MaxRecordsQuery, reply))
             /\ IF r.out = "return"
                THEN /\ \/ c.cat = "net_port_info"
                        \/ r.v = RegularTable(step)
                        \/ within
                     /\ netapp_info' = StoreFact(netapp_info, c.cat, r.v)
                     /\ step' = step + 1
                     /\ UNCHANGED <<pc, result>>
                ELSE /\ Abort(r)
                     /\ UNCHANGED <<netapp_info, step>>
    /\ UNCHANGED <<ifgrps, net_ifgrp_info, lookups, arg, ret>>

\* the entries of the net-port table whose port_type is 'if_group' (lines
\* 117-123): keys() of None raises, and so does a record without port_type.
IfgrpsOf(net_port_info) ==
    IF net_port_info.t # "dict" THEN Raise("AttributeError")
    ELSE LET items == net_port_info.items
             PortType == <<"port", "_", "type">>
         IN IF \E i \in 1..Len(items) : ~HasKey(items[i][2].items, PortType)
            THEN Raise("KeyError")
            ELSE Ok(SelectSeq([i \in 1..Len(items) |-> items[i][1]],
                              LAMBDA ifn : GetItem(GetItem(items, ifn).items, PortType)
                                              = Str(IfGroup)))

\* get_ifgrp_info up to its second loop (lines 117-125)
IfgrpBegin ==
    /\ pc = "Collecting"
    /\ step <= Len(Catalog)
    /\ Catalog[step].derived
    /\ LET r == IF "net_port_info" \in DOMAIN netapp_info
                THEN IfgrpsOf(netapp_info["net_port_info"])
                ELSE Raise("KeyError")
       IN IF r.raised = ""
          THEN /\ ifgrps' = r.v
               /\ net_ifgrp_info' = Dict(<<>>)
               /\ lookups' = <<>>
               /\ pc' = "IfgrpLoop"
               /\ result' = result
          ELSE /\ Abort(Escapes(r.raised))
               /\ UNCHANGED <<ifgrps, net_ifgrp_info, lookups>>
    /\ UNCHANGED <<step, netapp_info, sent, arg, ret>>

\* IfgrpQuery with the two parts of the key swapped
IfgrpQuery_Swapped(ifgrp) ==
    LET parts == Split(ifgrp.s)
    IN IF Len(parts) # 2 THEN Raise("ValueError")
       ELSE Ok(Dict(<< << <<"node">>, Str(parts[2]) >>,
                       << <<"ifgrp", "-", "name">>, Str(parts[1]) >> >>))

\* query['node'], query['ifgrp-name'] = ifgrp.split(':') (line 128)
IfgrpQuery(ifgrp) ==
    LET parts == Split(ifgrp.s)
    IN IF Len(parts) # 2 THEN Raise("ValueError")
       ELSE Ok(Dict(<< << <<"node">>, Str(parts[1]) >>,
                       << <<"ifgrp", "-", "name">>, Str(parts[2]) >> >>))

\* net_ifgrp_info.update(tmp) (lines 131-132): update(None) raises
MergeIfgrp(info, tmp) ==
    IF tmp.t # "dict" THEN Raise("TypeError")
    ELSE Ok(Dict(UpdateItems(info.items, tmp.items)))

\* one iteration of the second loop of get_ifgrp_info (lines 126-132)
IfgrpLookup ==
    /\ pc = "IfgrpLoop"
    /\ ifgrps # <<>>
    /\ LET c == Catalog[step]
           query == IfgrpQuery(Head(ifgrps))
           within == Irregular(netapp_info, lookups) < MaxIrregular
       IN IF query.raised # ""
          THEN /\ Abort(Escapes(query.raised))
               /\ UNCHANGED <<ifgrps, net_ifgrp_info, lookups, sent>>
          ELSE \E reply \in Replies("attributes",
                                    IfgrpPool(GetItem(query.v.items, <<"node">>).s,
                                              GetItem(query.v.items,
                                                      <<"ifgrp", "-", "name">>).s),
                                    OddPool(step)) :
                  LET r == get_generic_get_iter(c.call, c.attribute, c.field,
                                                "attributes", reply)
                      merged == MergeIfgrp(net_ifgrp_info, r.v)
                  IN /\ sent' = Append(sent, Sent(c.call, query.v, reply))
                     /\ IF r.out # "return"
                        THEN Abort(r) /\ UNCHANGED <<ifgrps, net_ifgrp_info, lookups>>
                        ELSE IF merged.raised # ""
                        THEN /\ Abort(Escapes(merged.raised))
                             /\ lookups' = Append(lookups, Lookup(query.v, r.v))
                             /\ UNCHANGED <<ifgrps, net_ifgrp_info>>
                        ELSE /\ \/ r.v = RegularIfgrpTable(query.v)
                                \/ within
                             /\ net_ifgrp_info' = merged.v
                             /\ lookups' = Append(lookups, Lookup(query.v, r.v))
                             /\ ifgrps' = Tail(ifgrps)
                             /\ UNCHANGED <<pc, result>>
    /\ UNCHANGED <<step, netapp_info, arg, ret>>

\* return net_ifgrp_info, and its assignment in get_all (lines 133, 220)
IfgrpEnd ==
    /\ pc = "IfgrpLoop"
    /\ ifgrps = <<>>
    /\ netapp_info' = StoreFact(netapp_info, Catalog[step].cat, net_ifgrp_info)
    /\ step' = step + 1
    /\ pc' = "Collecting"
    /\ UNCHANGED <<sent, ifgrps, net_ifgrp_info, lookups, result, arg, ret>>

\* return self.netapp_info, and main's exit_json (lines 250, 296-298)
Exit ==
    /\ pc = "Collecting"
    /\ step > Len(Catalog)
    /\ pc' = "Done"
    /\ result' = [kind |-> "exit_json", state |-> "info", changed |-> FALSE,
                  ontap_facts |-> netapp_info]
    /\ UNCHANGED <<step, netapp_info, sent, ifgrps, net_ifgrp_info, lookups, arg, ret>>

Next == Setup \/ Collect \/ IfgrpBegin \/ IfgrpLookup \/ IfgrpEnd \/ Exit

Spec == Init /\ [][Next]_vars

(***************************************************************************)
(* Function level: get_generic_get_iter, _finditem and convert_keys        *)
(* applied to bounded responses.  arg is the input, ret the result.        *)
(***************************************************************************)
KeyField == <<"k", "-", "id">>

OtherField == <<"m">>

SubField == <<"sub", "-", "rec">>

ItemAttr == <<"item", "-", "info">>

\* the key field of a nested record: absent, empty, or a value naming the place
KeyItems(tag) == {<<>>, << <<KeyField, None>> >>, << <<KeyField, Str(tag)>> >>}

\* records nested at most n deep below this one; a repeated child element is
\* a list of records
RECURSIVE Nested(_, _)
NestedItems(name, n, tag) ==
    {<<>>}
    \cup {<< <<name, List(<<Dict(k), Dict(k)>>)>> >> : k \in KeyItems(tag \o <<"l">>)}
    \cup IF n = 0 THEN {}
         ELSE {<< <<name, d>> >> : d \in Nested(n - 1, tag \o <<"s">>)}

Nested(n, tag) ==
    {Dict(k \o c) : k \in KeyItems(tag), c \in NestedItems(SubField, n, tag)}

\* one record with the key field at any of its places
DeepRecords ==
    {Dict(k \o a \o e \o m) :
        k \in KeyItems(<<"v", "-", "top">>),
        a \in NestedItems(<<"a", "-", "b">>, MaxDepth - 1, <<"v", "-", "a">>),
        e \in NestedItems(<<"e">>, 0, <<"v", "-", "e">>) \cup
              {<< << <<"e">>, d >> >> : d \in Nested(0, <<"v", "-", "e">>)},
        m \in {<<>>, << <<OtherField, Str(<<"m", "-", "1">>)>> >>}}

\* flat records: two key fields and a payload
FlatRecords ==
    {Dict(<< <<KeyField, Str(k)>>, <<OtherField, Str(m)>>,
             << <<"pay", "-", "load">>, Str(p) >> >>) :
        k \in {<<"x", "-", "1">>, <<"y">>}, m \in {<<"x", "-", "1">>, <<"y">>},
        p \in {<<"p1">>, <<"p2">>}}

Wrap(d) == Dict(<< <<ItemAttr, d>> >>)

FnArg(children, field) ==
    [children |-> children, attribute |-> Str(ItemAttr), field |-> field]

FnInputs ==
    {FnArg(<<Wrap(d)>>, f) :
        d \in DeepRecords,
        f \in {FieldStr(KeyField), FieldTuple(<<OtherField, KeyField>>)}}
    \cup {FnArg([i \in 1..Len(ds) |-> Wrap(ds[i])], f) :
            ds \in Seqs(FlatRecords, MaxRecords),
            f \in {FieldStr(KeyField), FieldTuple(<<OtherField, KeyField>>),
                   FieldNone}}

FnInit ==
    /\ pc = "Uninitialized"
    /\ step = 1
    /\ netapp_info = [c \in {} |-> None]
    /\ sent = <<>>
    /\ ifgrps = <<>>
    /\ net_ifgrp_info = Dict(<<>>)
    /\ lookups = <<>>
    /\ result = NoResult
    /\ arg \in FnInputs
    /\ ret = None

FnResult(fn, r) == [fn |-> fn, r |-> r]

\* the record of the first child, below the configured attribute
FirstRecord == GetItem(arg.children[1].items, arg.attribute.s)

FnGetIter ==
    /\ ret = None
    /\ ret' = FnResult("get_generic_get_iter",
                       get_generic_get_iter("fn-get-iter", arg.attribute, arg.field,
                                            "attributes-list",
                                            Reply(FALSE, Response("attributes-list",
                                                                  arg.children))))
    /\ UNCHANGED <<pc, step, netapp_info, sent, ifgrps, net_ifgrp_info, lookups,
                   result, arg>>

FnFinditem ==
    /\ ret = None
    /\ Len(arg.children) = 1
    /\ arg.field.kind = "str"
    /\ ret' = FnResult("_finditem", Return(_finditem(FirstRecord, arg.field.names[1])))
    /\ UNCHANGED <<pc, step, netapp_info, sent, ifgrps, net_ifgrp_info, lookups,
                   result, arg>>

FnConvertKeys ==
    /\ ret = None
    /\ Len(arg.children) = 1
    /\ arg.field.kind = "str"
    /\ ret' = FnResult("convert_keys", Return(convert_keys(JsonRoundTrip(FirstRecord))))
    /\ UNCHANGED <<pc, step, netapp_info, sent, ifgrps, net_ifgrp_info, lookups,
                   result, arg>>

FnNext == FnGetIter \/ FnFinditem \/ FnConvertKeys

SpecFn == FnInit /\ [][FnNext]_vars

(***************************************************************************)
(* Properties                                                              *)
(***************************************************************************)
CategoryNames ==
    {"net_interface_info", "net_port_info", "cluster_node_info",
     "security_login_account_info", "aggregate_info", "volume_info", "lun_info",
     "storage_failover_info", "net_ifgrp_info", "vserver_motd_info",
     "vserver_login_banner_info", "security_key_manager_key_info", "vserver_info"}

KeyManagerCategory == "security_key_manager_key_info"

Keys(d) == {d.items[i][1] : i \in 1..Len(d.items)}

NoColon(s) == \A i \in 1..Len(s) : s[i] # ":"

\* the message has the call's name among its parts
Names(msg, call) == \E i \in 1..Len(msg) : msg[i] = call

KeyManagerRaised ==
    \E i \in 1..Len(sent) : sent[i].call = KeyManagerCall /\ sent[i].raised

OnlyKeyManagerRaised ==
    \A i \in 1..Len(sent) : sent[i].raised => sent[i].call = KeyManagerCall

\* C1: a call other than the key-manager call that raises NaApiError ends the
\* run in Failed with a message naming that call; no Fact Set is returned and
\* the failed call is the last one sent.
C1_FailedCallAborts ==
    \A i \in 1..Len(sent) :
        sent[i].raised /\ sent[i].call # KeyManagerCall =>
            /\ pc = "Failed"
            /\ result.kind = "fail_json"
            /\ Names(result.msg, sent[i].call)
            /\ i = Len(sent)

\* a lookup of get_ifgrp_info failed, after the eight categories before it
C1_Witness ==
    /\ pc = "Failed"
    /\ Len(sent) > 8
    /\ sent[Len(sent)].call = "net-port-ifgrp-get"
    /\ sent[Len(sent)].raised
    /\ Names(result.msg, "net-port-ifgrp-get")

\* C2: when the key-manager call raises NaApiError and no other call fails
\* (none raises NaApiError and no response makes the collector raise), the
\* run is never Failed, security_key_manager_key_info is a key mapped to
\* None, the run can go on until it is Done, and at Done vserver-get-iter
\* was sent after the key-manager call and changed is false.
C2_KeyManagerExempt ==
    KeyManagerRaised /\ OnlyKeyManagerRaised /\ pc # "Crashed" =>
        /\ pc # "Failed"
        /\ KeyManagerCategory \in DOMAIN netapp_info
        /\ netapp_info[KeyManagerCategory] = None
        /\ pc = "Done" \/ ENABLED Next
        /\ pc = "Done" =>
              /\ result.kind = "exit_json"
              /\ result.changed = FALSE
              /\ result.ontap_facts[KeyManagerCategory] = None
              /\ "vserver_info" \in DOMAIN result.ontap_facts
              /\ sent[Len(sent)].call = "vserver-get-iter"
              /\ sent[Len(sent) - 1].call = KeyManagerCall

C2_Witness ==
    /\ pc = "Done"
    /\ KeyManagerRaised
    /\ result.ontap_facts["vserver_info"] # None

\* C3: at Done the keys of the returned Fact Set are exactly the thirteen
\* category names.
C3_ExactlyThirteenKeys ==
    pc = "Done" =>
        /\ result.kind = "exit_json"
        /\ DOMAIN result.ontap_facts = CategoryNames
        /\ Cardinality(DOMAIN result.ontap_facts) = 13

\* a run that completes although one response had no records container
C3_Witness ==
    /\ pc = "Done"
    /\ ~KeyManagerRaised
    /\ result.ontap_facts["lun_info"] = None

\* call_api returned no response for the call of Catalog[i]: the call raised
\* NaApiError and the run went on
AbsentResponse(i) ==
    \E j \in 1..Len(sent) :
        /\ sent[j].call = Catalog[i].call
        /\ sent[j].raised
        /\ j < Len(sent) \/ pc # "Failed"

\* C4 as stated: a category whose response is absent is not a key of the
\* final Fact Set.
C4_AbsentCategoryMissing ==
    pc = "Done" =>
        \A i \in 1..Len(Catalog) :
            AbsentResponse(i) => Catalog[i].cat \notin DOMAIN result.ontap_facts

\* C4 amended: a category whose response is absent is a key of the Fact Set
\* mapped to None (not an empty collection), from its assignment on and in
\* the Fact Set returned at Done.
C4_AbsentCategoryIsNone ==
    \A i \in 1..Len(Catalog) :
        AbsentResponse(i) =>
            /\ Catalog[i].cat \in DOMAIN netapp_info
            /\ netapp_info[Catalog[i].cat] = None
            /\ pc = "Done" =>
                  /\ Catalog[i].cat \in DOMAIN result.ontap_facts
                  /\ result.ontap_facts[Catalog[i].cat] = None

C4_Witness ==
    /\ pc = "Done"
    /\ AbsentResponse(12)
    /\ result.ontap_facts[KeyManagerCategory] = None

\* C5: a run never ends in an unreported error: it is Done with a Fact Set
\* or Failed through fail_json, and after a call was sent the message names
\* the failing call and the error.
C5_EndsDoneOrFailed ==
    /\ pc # "Crashed"
    /\ result.kind # "traceback"
    /\ pc = "Done" => result.kind = "exit_json"
    /\ pc = "Failed" => result.kind = "fail_json"
    /\ pc = "Failed" /\ sent # <<>> =>
          /\ Names(result.msg, sent[Len(sent)].call)
          /\ Names(result.msg, "NaApiError")

\* the entries of a net-port table whose port_type is 'if_group', in order
IfGroupEntries(tbl) ==
    SelectSeq(tbl.items,
              LAMBDA it : /\ HasKey(it[2].items, <<"port", "_", "type">>)
                          /\ GetItem(it[2].items, <<"port", "_", "type">>)
                                = Str(<<"if", "_", "group">>))

LookupsSent == SelectSeq(sent, LAMBDA m : m.call = "net-port-ifgrp-get")

\* C6: once get_ifgrp_info has returned, the net-port-ifgrp-get calls sent
\* are one per if_group entry of the net-port table and no other; the query
\* for key 'N:G' is node=N, ifgrp-name=G; and net_ifgrp_info holds exactly the
\* keys of the tables the lookups returned, each with a value one of them
\* gave it.
C6_IfgrpDerivation ==
    "net_ifgrp_info" \in DOMAIN netapp_info =>
        LET groups == IfGroupEntries(netapp_info["net_port_info"])
            tbl == netapp_info["net_ifgrp_info"]
        IN /\ Len(LookupsSent) = Len(groups)
           /\ Len(lookups) = Len(groups)
           /\ \A i \in 1..Len(groups) :
                 LET q == LookupsSent[i].query
                     N == GetItem(q.items, <<"node">>)
                     G == GetItem(q.items, <<"ifgrp", "-", "name">>)
                 IN /\ Keys(q) = {<<"node">>, <<"ifgrp", "-", "name">>}
                    /\ NoColon(N.s) /\ NoColon(G.s)
                    /\ N.s \o <<":">> \o G.s = groups[i][1].s
                    /\ lookups[i].query = q
           /\ Keys(tbl) = UNION {Keys(lookups[i].tmp) : i \in 1..Len(lookups)}
           /\ \A k \in Keys(tbl) :
                 \E i \in 1..Len(lookups) :
                     /\ HasKey(lookups[i].tmp.items, k)
                     /\ GetItem(lookups[i].tmp.items, k) = GetItem(tbl.items, k)

\* a table with an if_group entry nodeA:a0a and a physical one: one lookup,
\* with node=nodeA and ifgrp-name=a0a, whose table is the result
C6_Witness ==
    /\ "net_ifgrp_info" \in DOMAIN netapp_info
    /\ netapp_info["net_port_info"] # None
    /\ Len(netapp_info["net_port_info"].items) = 2
    /\ Len(LookupsSent) = 1
    /\ GetItem(LookupsSent[1].query.items, <<"node">>) = Str(<<"nodeA">>)
    /\ GetItem(LookupsSent[1].query.items, <<"ifgrp", "-", "name">>) = Str(<<"a0a">>)
    /\ Keys(netapp_info["net_ifgrp_info"]) = {Str(<<"nodeA", ":", "a0a">>)}

(***************************************************************************)
(* Properties of the function-level specification                          *)
(***************************************************************************)
RECURSIVE NoHyphenNames(_)
\* no field name of v, at any depth and inside lists, contains a hyphen
NoHyphenNames(v) ==
    CASE v.t = "dict" ->
           \A i \in 1..Len(v.items) :
               /\ \A j \in 1..Len(v.items[i][1]) : v.items[i][1][j] # "-"
               /\ NoHyphenNames(v.items[i][2])
      [] v.t = "list" -> \A i \in 1..Len(v.elems) : NoHyphenNames(v.elems[i])
      [] OTHER -> TRUE

RECURSIVE LeafValues(_)
RECURSIVE LeafValuesOf(_)
\* the strings and Nones of v, in order
LeafValuesOf(vs) ==
    IF vs = <<>> THEN <<>> ELSE LeafValues(Head(vs)) \o LeafValuesOf(Tail(vs))

LeafValues(v) ==
    CASE v.t = "dict" -> LeafValuesOf([i \in 1..Len(v.items) |-> v.items[i][2]])
      [] v.t = "list" -> LeafValuesOf(v.elems)
      [] OTHER -> <<v>>

GetIterReturned ==
    /\ ret # None
    /\ ret.fn = "get_generic_get_iter"
    /\ ret.r.out = "return"

\* C7: in every record stored in the table, and in every result of
\* convert_keys, no field name at any depth contains a hyphen, and the field
\* values are those of the raw record.
C7_NoHyphenAtAnyDepth ==
    /\ GetIterReturned /\ arg.field.kind # "none" =>
          \A i \in 1..Len(ret.r.v.items) : NoHyphenNames(ret.r.v.items[i][2])
    /\ ret # None /\ ret.fn = "convert_keys" =>
          /\ NoHyphenNames(ret.r.v)
          /\ LeafValues(ret.r.v) = LeafValues(FirstRecord)

\* the table get_generic_get_iter builds from this child alone, keyed by field
TableOfOne(child, field) ==
    get_generic_get_iter("fn-get-iter", arg.attribute, field, "attributes-list",
                         Reply(FALSE, Response("attributes-list", <<child>>))).v

RECURSIVE ColonJoined(_)
ColonJoined(vals) ==
    IF Len(vals) = 1 THEN vals[1].s
    ELSE vals[1].s \o <<":">> \o ColonJoined(Tail(vals))

\* the key this child has for each single field of the tuple, colon-joined
ExpectedCompositeKey(child, names) ==
    Str(ColonJoined([i \in 1..Len(names) |->
                        TableOfOne(child, FieldStr(names[i])).items[1][1]]))

\* C8: with a tuple of key fields, the keys of the table are, for each record,
\* the keys the record has for f1, ..., fn as single key fields, joined by ':'
\* in the declared order.
C8_CompositeKeyJoined ==
    GetIterReturned /\ arg.field.kind = "tuple" =>
        Keys(ret.r.v) = {ExpectedCompositeKey(arg.children[i], arg.field.names) :
                            i \in 1..Len(arg.children)}

\* one record whose second key field is found in a nested record only
C8_Witness ==
    /\ GetIterReturned
    /\ arg.field.kind = "tuple"
    /\ Len(arg.children) = 1
    /\ ~HasKey(FirstRecord.items, KeyField)
    /\ Keys(ret.r.v) = {Str(<<"m", "-", "1", ":", "v", "-", "a", "s">>)}

RECURSIVE Occurrences(_, _)
RECURSIVE OccurrencesIn(_, _)
\* the values of key in d and the dicts nested in it, parent before children,
\* depth first
OccurrencesIn(items, key) ==
    IF items = <<>> THEN <<>>
    ELSE (IF Head(items)[2].t = "dict" THEN Occurrences(Head(items)[2], key)
          ELSE <<>>) \o OccurrencesIn(Tail(items), key)

Occurrences(d, key) ==
    (IF HasKey(d.items, key) THEN <<GetItem(d.items, key)>> ELSE <<>>)
    \o OccurrencesIn(d.items, key)

\* C9: with a single key field that occurs in the record, _finditem gives, and
\* the table key is, the value of its first occurrence in depth-first,
\* parent-before-children order, also when that value is None.
C9_KeyIsFirstOccurrence ==
    /\ ret # None
    /\ Len(arg.children) = 1
    /\ arg.field.kind = "str"
    /\ Occurrences(FirstRecord, arg.field.names[1]) # <<>>
    => LET first == Head(Occurrences(FirstRecord, arg.field.names[1]))
       IN /\ ret.fn = "_finditem" => ret.r.v = first
          /\ ret.fn = "get_generic_get_iter" /\ ret.r.out = "return" =>
                ret.r.v.items[1][1] = first

\* the key and the Normalized Record of child i, taken alone
EntryOf(i) == TableOfOne(arg.children[i], arg.field).items[1]

\* C10: a keyed table has exactly one entry per distinct derived key, and each
\* key maps to the Normalized Record of the last record with that key.
C10_LastRecordWins ==
    GetIterReturned /\ arg.field.kind # "none" =>
        LET n == Len(arg.children)
            items == ret.r.v.items
        IN /\ Keys(ret.r.v) = {EntryOf(j)[1] : j \in 1..n}
           /\ Len(items) = Cardinality({EntryOf(j)[1] : j \in 1..n})
           /\ \A i \in 1..Len(items) :
                 LET last == CHOOSE j \in 1..n :
                                 /\ EntryOf(j)[1] = items[i][1]
                                 /\ \A l \in (j + 1)..n : EntryOf(l)[1] # items[i][1]
                 IN items[i][2] = EntryOf(last)[2]

\* two records with the same key and different payloads: one entry, the second
C10_Witness ==
    /\ GetIterReturned
    /\ arg.field.kind = "str"
    /\ Len(arg.children) = 2
    /\ EntryOf(1)[1] = EntryOf(2)[1]
    /\ EntryOf(1)[2] # EntryOf(2)[2]
    /\ Len(ret.r.v.items) = 1
    /\ ret.r.v.items[1][2] = EntryOf(2)[2]

====
